---- MODULE Spec2Model ----
(***************************************************************************)
(* Model of tools/generate_graph.py: the loader (load_envs,                *)
(* parse_requirements), the cluster engine (collect_versions,              *)
(* compute_clusters), the two renderers (build_mermaid,                    *)
(* build_cluster_report) and main.                                         *)
(*                                                                         *)
(* Text is modelled as sequences of characters, a character being a        *)
(* one-element string.  Python dicts are modelled as sequences of entries  *)
(* in insertion order, Python sets as sets.  An output text is the         *)
(* sequence of the elements of the renderer's `lines` list, each kept as   *)
(* a record of its kind and its variable parts.                            *)
(***************************************************************************)
EXTENDS Integers, Sequences, FiniteSets, TLC

(***************************************************************************)
(* Characters and strings                                                  *)
(***************************************************************************)

\* The characters that occur, in code point order.  WARN is U+26A0 and VS16
\* is U+FE0F: the two code points of the drift marker.
CodePoints ==
    << " ", "*", "+", ",", "-", ".",
       "0", "1", "2", "3", "4", "5", "6", "7", "8", "9",
       "<", "=", ">",
       "A", "B", "C", "D", "E", "F", "G", "H", "I", "J", "K", "L", "M",
       "N", "O", "P", "Q", "R", "S", "T", "U", "V", "W", "X", "Y", "Z",
       "_",
       "a", "b", "c", "d", "e", "f", "g", "h", "i", "j", "k", "l", "m",
       "n", "o", "p", "q", "r", "s", "t", "u", "v", "w", "x", "y", "z",
       "WARN", "VS16" >>

Ord(c) == CHOOSE k \in 1..Len(CodePoints) : CodePoints[k] = c

Digits == {"0", "1", "2", "3", "4", "5", "6", "7", "8", "9"}
UpperSeq == << "A", "B", "C", "D", "E", "F", "G", "H", "I", "J", "K", "L", "M",
               "N", "O", "P", "Q", "R", "S", "T", "U", "V", "W", "X", "Y", "Z" >>
LowerSeq == << "a", "b", "c", "d", "e", "f", "g", "h", "i", "j", "k", "l", "m",
               "n", "o", "p", "q", "r", "s", "t", "u", "v", "w", "x", "y", "z" >>
Upper == {UpperSeq[k] : k \in 1..26}
Lower == {LowerSeq[k] : k \in 1..26}

\* str.lower on one character
LowerChar(c) ==
    IF c \in Upper THEN LowerSeq[CHOOSE k \in 1..26 : UpperSeq[k] = c] ELSE c

\* Python's str < str: lexicographic on code points, a proper prefix first
RECURSIVE StrLess(_, _)
StrLess(s, t) ==
    IF t = <<>> THEN FALSE
    ELSE IF s = <<>> THEN TRUE
    ELSE IF s[1] = t[1] THEN StrLess(Tail(s), Tail(t))
    ELSE Ord(s[1]) < Ord(t[1])

\* Python's list < list on lists of strings
RECURSIVE ListLess(_, _)
ListLess(a, b) ==
    IF b = <<>> THEN FALSE
    ELSE IF a = <<>> THEN TRUE
    ELSE IF a[1] = b[1] THEN ListLess(Tail(a), Tail(b))
    ELSE StrLess(a[1], b[1])

\* sorted(S) for a set (or any iterable without duplicates) of strings
RECURSIVE SortedStrs(_)
SortedStrs(S) ==
    IF S = {} THEN <<>>
    ELSE LET m == CHOOSE x \in S : \A y \in S \ {x} : StrLess(x, y)
         IN  <<m>> \o SortedStrs(S \ {m})

\* sep.join(parts)
RECURSIVE Join(_, _)
Join(sep, parts) ==
    IF parts = <<>> THEN <<>>
    ELSE IF Len(parts) = 1 THEN parts[1]
    ELSE parts[1] \o sep \o Join(sep, Tail(parts))

\* needle in s
Contains(s, needle) ==
    \E k \in 0..(Len(s) - Len(needle)) :
        SubSeq(s, k + 1, k + Len(needle)) = needle

\* s.startswith(prefix)
StartsWith(s, prefix) ==
    /\ Len(s) >= Len(prefix)
    /\ SubSeq(s, 1, Len(prefix)) = prefix

IsSpace(c) == c = " "

\* str.strip
RECURSIVE LStrip(_)
LStrip(s) == IF s # <<>> /\ IsSpace(s[1]) THEN LStrip(Tail(s)) ELSE s
RECURSIVE RStrip(_)
RStrip(s) ==
    IF s # <<>> /\ IsSpace(s[Len(s)]) THEN RStrip(SubSeq(s, 1, Len(s) - 1)) ELSE s
Strip(s) == LStrip(RStrip(s))

AllChars == {CodePoints[k] : k \in 1..Len(CodePoints)}
NonSpace == AllChars \ {" "}

\* the length of the longest prefix of s made of characters of the class
RECURSIVE SpanLen(_, _)
SpanLen(s, class) ==
    IF s # <<>> /\ s[1] \in class THEN 1 + SpanLen(Tail(s), class) ELSE 0

\* str.split(maxsplit=1): split on the first run of whitespace, leading
\* whitespace dropped
SplitOnce(s) ==
    LET t == LStrip(s)
        n == SpanLen(t, NonSpace)
        rest == LStrip(SubSeq(t, n + 1, Len(t)))
    IN  IF t = <<>> THEN <<>>
        ELSE IF rest = <<>> THEN << SubSeq(t, 1, n) >>
        ELSE << SubSeq(t, 1, n), rest >>

(***************************************************************************)
(* Python dicts, in insertion order                                        *)
(***************************************************************************)

None == <<>>

HasKey(d, k) == \E j \in 1..Len(d) : d[j].key = k
IndexOf(d, k) == CHOOSE j \in 1..Len(d) : d[j].key = k
Get(d, k) == d[IndexOf(d, k)].val
Keys(d) == {d[j].key : j \in 1..Len(d)}

\* d[k] = v: an existing key keeps its position
DictSet(d, k, v) ==
    IF HasKey(d, k)
    THEN [d EXCEPT ![IndexOf(d, k)] = [key |-> k, val |-> v]]
    ELSE Append(d, [key |-> k, val |-> v])

\* d.update(other)
RECURSIVE DictUpdate(_, _)
DictUpdate(d, other) ==
    IF other = <<>> THEN d
    ELSE DictUpdate(DictSet(d, other[1].key, other[1].val), Tail(other))

\* d.setdefault(k, set()).add(x)
SetDefaultAdd(d, k, x) ==
    IF HasKey(d, k)
    THEN [d EXCEPT ![IndexOf(d, k)].val = @ \cup {x}]
    ELSE Append(d, [key |-> k, val |-> {x}])

(***************************************************************************)
(* Parsing                                                                 *)
(***************************************************************************)

\* name.lower().replace("-", "_")
normalize_pkg(name) ==
    [k \in 1..Len(name) |->
        IF LowerChar(name[k]) = "-" THEN "_" ELSE LowerChar(name[k])]

\* [A-Za-z0-9_.-]
NameChars == Upper \cup Lower \cup Digits \cup {"_", ".", "-"}

\* REQ_LINE_RE.match(line): <<>> when there is no match, else
\* <<[name, version]>> with version None when the optional group is absent
REQ_LINE_RE(line) ==
    LET t == LStrip(line)
        n == SpanLen(t, NameChars)
        rest == SubSeq(t, n + 1, Len(t))
        v == IF StartsWith(rest, <<"=", "=">>)
             THEN SpanLen(SubSeq(rest, 3, Len(rest)), NonSpace)
             ELSE 0
    IN  IF n = 0 THEN <<>>
        ELSE << [name |-> SubSeq(t, 1, n),
                 version |-> IF v = 0 THEN None ELSE SubSeq(rest, 3, 2 + v)] >>

\* the body of parse_requirements' loop over the lines of an existing file
RECURSIVE ParseLines(_, _)
ParseLines(lines, pkgs) ==
    IF lines = <<>> THEN pkgs
    ELSE LET line == Strip(lines[1])
             m == REQ_LINE_RE(line)
         IN  IF line = <<>> \/ StartsWith(line, <<"#">>)
             THEN ParseLines(Tail(lines), pkgs)
             ELSE IF m = <<>>
             THEN ParseLines(Tail(lines), pkgs)
             ELSE ParseLines(Tail(lines),
                             DictSet(pkgs, normalize_pkg(m[1].name), m[1].version))

(***************************************************************************)
(* The repository: requirements files and environment definitions          *)
(***************************************************************************)

S_r1 == <<"r", "1">>
S_r2 == <<"r", "2">>
S_r3 == <<"r", "3">>
S_r4 == <<"r", "4">>
S_missing == <<"m">>
S_placeholder == <<"<", "p", ">">>

S_numpy == <<"n", "u", "m", "p", "y">>
S_requests == <<"r", "e", "q", "u", "e", "s", "t", "s">>
S_a_b == <<"a", "_", "b">>
S_a_dot_b == <<"a", ".", "b">>

\* The requirements files that exist, by resolved path, each a sequence of
\* lines (read_text().splitlines()).  Every other path is a missing file.
ReqFiles ==
    [p \in {S_r1, S_r2, S_r3, S_r4} |->
        CASE p = S_r1 -> << S_numpy \o <<"=", "=", "1", ".", "0">>, S_requests >>
          [] p = S_r2 -> << S_numpy \o <<"=", "=", "2", ".", "0">>, S_requests >>
          [] p = S_r3 -> << <<"#", "c">>,
                            <<"A", "-", "B", "=", "=", "1">>,
                            <<" ", " ">>,
                            <<"=", "x">>,
                            S_requests,
                            <<"c", ">", "=", "1">> >>
          [] p = S_r4 -> << <<"a", "_", "b", "=", "=", "2">>,
                            <<" ", "a", ".", "b", " ">>,
                            <<"a", "_", "b">> >>]

\* (env_dir / rel_path).resolve(): the model's relative paths all lead to
\* one shared directory of requirements files, so the resolved path is
\* identified by the relative one
Resolve(env_dir, rel_path) == rel_path

\* parse_requirements(req_path): the packages and the warnings printed
parse_requirements(req_path) ==
    IF req_path \notin DOMAIN ReqFiles
    THEN IF Contains(req_path, <<"<">>) \/ Contains(req_path, <<"p", "a", "t", "h">>)
         THEN [pkgs |-> <<>>, warn |-> {}]
         ELSE [pkgs |-> <<>>, warn |-> {"requirements file not found"}]
    ELSE [pkgs |-> ParseLines(ReqFiles[req_path], <<>>), warn |-> {}]

(***************************************************************************)
(* Analysis                                                                *)
(***************************************************************************)

\* version or "*"
OrStar(version) == IF version = None THEN <<"*">> ELSE version

\* the inner loop of collect_versions over one environment's packages
RECURSIVE AddVersions(_, _)
AddVersions(versions, pkgs) ==
    IF pkgs = <<>> THEN versions
    ELSE AddVersions(SetDefaultAdd(versions, pkgs[1].key, OrStar(pkgs[1].val)),
                     Tail(pkgs))

RECURSIVE CollectFrom(_, _)
CollectFrom(versions, envs) ==
    IF envs = <<>> THEN versions
    ELSE CollectFrom(AddVersions(versions, envs[1].val), Tail(envs))

\* collect_versions(envs): {package: set of versions}
collect_versions(envs) == CollectFrom(<<>>, envs)

\* AddEnv with pkg_to_envs[pkg] = {env} in place of setdefault(...).add(env)
RECURSIVE AddEnv_overwrite(_, _, _)
AddEnv_overwrite(pkg_to_envs, env, pkgs) ==
    IF pkgs = <<>> THEN pkg_to_envs
    ELSE AddEnv_overwrite(DictSet(pkg_to_envs, pkgs[1].key, {env}), env, Tail(pkgs))

\* the inner loop of compute_clusters' first pass over one environment
RECURSIVE AddEnv(_, _, _)
AddEnv(pkg_to_envs, env, pkgs) ==
    IF pkgs = <<>> THEN pkg_to_envs
    ELSE AddEnv(SetDefaultAdd(pkg_to_envs, pkgs[1].key, env), env, Tail(pkgs))

RECURSIVE InvertFrom(_, _)
InvertFrom(pkg_to_envs, envs) ==
    IF envs = <<>> THEN pkg_to_envs
    ELSE InvertFrom(AddEnv(pkg_to_envs, envs[1].key, envs[1].val), Tail(envs))

\* the second pass: key = frozenset(sorted(env_set))
RECURSIVE GroupFrom(_, _)
GroupFrom(clusters, pkg_to_envs) ==
    IF pkg_to_envs = <<>> THEN clusters
    ELSE GroupFrom(SetDefaultAdd(clusters, pkg_to_envs[1].val, pkg_to_envs[1].key),
                   Tail(pkg_to_envs))

\* compute_clusters(envs): {frozenset of environment names: set of packages}
compute_clusters(envs) == GroupFrom(<<>>, InvertFrom(<<>>, envs))

(***************************************************************************)
(* Rendering                                                               *)
(***************************************************************************)

\* [A-Za-z0-9_]
IdChars == Upper \cup Lower \cup Digits \cup {"_"}

\* re.sub(r"[^A-Za-z0-9_]", "_", name)
node_id(name) ==
    [k \in 1..Len(name) |-> IF name[k] \in IdChars THEN name[k] ELSE "_"]

\* cluster_sort_key without the tie-break on the names
cluster_sort_key_size_only(env_set) == << Cardinality(env_set), <<>> >>

\* (len(env_set), sorted(env_set))
cluster_sort_key(env_set) == << Cardinality(env_set), SortedStrs(env_set) >>

\* report_sort_key without the size
report_sort_key_names_only(env_set) == << 0, SortedStrs(env_set) >>

\* the key of build_cluster_report's sort: lambda s: (len(s), sorted(s))
report_sort_key(env_set) == << Cardinality(env_set), SortedStrs(env_set) >>

\* Python's tuple < tuple on (int, list of str)
KeyLess(k1, k2) == k1[1] < k2[1] \/ (k1[1] = k2[1] /\ ListLess(k1[2], k2[2]))

\* sorted(items, key=...) on the items decorated with their keys: stable, an
\* item goes before the first one whose key is greater
InsertByKey(sorted, d) ==
    LET later == {j \in 1..Len(sorted) : KeyLess(d.k, sorted[j].k)}
        at == IF later = {} THEN Len(sorted) + 1
              ELSE CHOOSE j \in later : \A l \in later : j <= l
    IN  SubSeq(sorted, 1, at - 1) \o <<d>> \o SubSeq(sorted, at, Len(sorted))

RECURSIVE SortDecorated(_)
SortDecorated(ds) ==
    IF ds = <<>> THEN <<>>
    ELSE InsertByKey(SortDecorated(SubSeq(ds, 1, Len(ds) - 1)), ds[Len(ds)])

Undecorate(ds) == [j \in 1..Len(ds) |-> ds[j].item]

\* sorted(clusters.items(), key=cluster_sort_key)
SortedMermaid(items) ==
    Undecorate(SortDecorated(
        [j \in 1..Len(items) |-> [k |-> cluster_sort_key(items[j].key), item |-> items[j]]]))

\* sorted(clusters.keys(), key=lambda s: (len(s), sorted(s))), each key
\* kept with its packages
SortedReport(items) ==
    Undecorate(SortDecorated(
        [j \in 1..Len(items) |-> [k |-> report_sort_key(items[j].key), item |-> items[j]]]))

DriftMarker == <<" ", "WARN", "VS16">>

\* versions.get(pkg, set())
VersionSet(versions, pkg) == IF HasKey(versions, pkg) THEN Get(versions, pkg) ELSE {}

\* IsDrift counting pinned versions only
IsDrift_pinned_only(version_set) == Cardinality(version_set \ {<<"*">>}) > 1

\* drift = len(version_set) > 1
IsDrift(version_set) == Cardinality(version_set) > 1

\* the label and identifier build_mermaid gives one package
PkgNode(pkg, versions) ==
    LET version_set == VersionSet(versions, pkg)
        drift == IsDrift(version_set)
        versions_str == SortedStrs(version_set \ {<<"*">>})
        pinned == IF versions_str # <<>>
                  THEN pkg \o <<"=", "=">> \o versions_str[1]
                  ELSE pkg
        label == IF drift THEN pinned \o DriftMarker ELSE pinned
    IN  [label |-> label, id |-> node_id(label), drift |-> drift]

Line(kind, id, label) == [kind |-> kind, id |-> id, label |-> label]

\* the lines one cluster adds to the graph
SubgraphLines(env_set, pkgs, versions) ==
    LET names == SortedStrs(env_set)
        env_label == Join(<<" ", "+", " ">>, names)
        cluster_name == <<"c", "l", "u", "s", "t", "e", "r", "_">> \o Join(<<"_">>, names)
        ps == SortedStrs(pkgs)
    IN  << Line("subgraph", node_id(cluster_name), env_label) >>
        \o [k \in 1..Len(ps) |->
               Line("node", PkgNode(ps[k], versions).id, PkgNode(ps[k], versions).label)]
        \o << Line("end", <<>>, <<>>) >>

\* the identifiers one cluster adds to drift_nodes
SubgraphDrift(pkgs, versions) ==
    LET ps == SortedStrs(pkgs)
        ids == [k \in 1..Len(ps) |-> PkgNode(ps[k], versions)]
        Drifts(n) == n.drift
        flagged == SelectSeq(ids, Drifts)
    IN  [k \in 1..Len(flagged) |-> flagged[k].id]

RECURSIVE MermaidBody(_, _)
MermaidBody(items, versions) ==
    IF items = <<>> THEN <<>>
    ELSE SubgraphLines(items[1].key, items[1].val, versions)
         \o MermaidBody(Tail(items), versions)

RECURSIVE MermaidDrift(_, _)
MermaidDrift(items, versions) ==
    IF items = <<>> THEN <<>>
    ELSE SubgraphDrift(items[1].val, versions) \o MermaidDrift(Tail(items), versions)

\* build_mermaid(envs): the lines of the graph description
build_mermaid(envs) ==
    LET clusters == compute_clusters(envs)
        versions == collect_versions(envs)
        items == SortedMermaid(clusters)
        drift_nodes == MermaidDrift(items, versions)
    IN  << Line("graph", <<>>, <<>>) >>
        \o MermaidBody(items, versions)
        \o << Line("blank", <<>>, <<>>) >>
        \o [k \in 1..Len(drift_nodes) |-> Line("style", drift_nodes[k], <<>>)]

\* iteration over a frozenset of strings: the order follows the strings'
\* hashes, which change with the interpreter's hash seed.  hash_order lists
\* the environment names in the order of their hash slots.
FrozensetIter(env_set, hash_order) ==
    LET In(n) == n \in env_set
    IN  SelectSeq(hash_order, In)

RLine(kind, text) == [kind |-> kind, text |-> text]

SectionLines(env_set, pkgs, hash_order) ==
    LET ps == SortedStrs(pkgs)
        env_label == Join(<<",", " ">>, FrozensetIter(env_set, hash_order))
    IN  << RLine("section", env_label) >>
        \o [k \in 1..Len(ps) |-> RLine("pkg", ps[k])]
        \o << RLine("blank", <<>>) >>

RECURSIVE ReportBody(_, _)
ReportBody(items, hash_order) ==
    IF items = <<>> THEN <<>>
    ELSE SectionLines(items[1].key, items[1].val, hash_order)
         \o ReportBody(Tail(items), hash_order)

\* "\n".join(lines).rstrip(): the trailing blank lines go
RECURSIVE RStripLines(_)
RStripLines(lines) ==
    IF lines # <<>> /\ lines[Len(lines)].kind = "blank"
    THEN RStripLines(SubSeq(lines, 1, Len(lines) - 1))
    ELSE lines

\* build_cluster_report(clusters): the lines of the report; the banner
\* string ends in a newline of its own, hence the blank line after it
build_cluster_report(clusters, hash_order) ==
    RStripLines(<< RLine("banner", <<>>), RLine("blank", <<>>) >>
                \o ReportBody(SortedReport(clusters), hash_order))

(***************************************************************************)
(* Environment definitions                                                 *)
(***************************************************************************)

S_a == <<"a">>
S_b == <<"b">>
S_template == <<"t", "e", "m", "p", "l", "a", "t", "e">>
S_envname == <<"e", "n", "v", "n", "a", "m", "e">>
S_Template == <<"T", "e", "m", "p", "l", "a", "t", "e">>
S_dash_r == <<"-", "r">>

\* "-r <rel_path>"
Include(rel_path) == S_dash_r \o <<" ">> \o rel_path

\* a dependencies entry: a plain scalar, or a mapping with a "pip" list
Scalar == [pip |-> FALSE, entries |-> <<>>]
Pip(entries) == [pip |-> TRUE, entries |-> entries]

\* a parsed environment.yml: data.get("name"), data.get("dependencies", [])
Yml(hasName, name, dependencies) ==
    [hasName |-> hasName, name |-> name, dependencies |-> dependencies]

\* The environment definitions the directories of a repository are drawn from
YmlMenu ==
    { Yml(FALSE, <<>>, << Scalar, Pip(<< Include(S_r1) >>) >>),
      Yml(FALSE, <<>>, << Pip(<< Include(S_r2) >>) >>),
      Yml(FALSE, <<>>, << Pip(<< Include(S_r3), Include(S_missing) >>) >>),
      Yml(FALSE, <<>>, << Pip(<< <<"x">>, Include(S_r4) >>),
                          Pip(<< Include(S_placeholder) >>) >>),
      Yml(TRUE, S_Template, << Pip(<< Include(S_r1) >>) >>),
      Yml(TRUE, S_a, <<>>),
      Yml(FALSE, <<>>, << Pip(<< Include(S_r1), S_dash_r >>) >>),
      Yml(FALSE, <<>>, << Pip(<< S_dash_r \o S_r1 >>) >>) }

\* The names a top-level directory can have
DirNames == {S_a, S_b, S_a_b, S_template}

\* IGNORE_DIRS, as far as DirNames goes
IGNORE_DIRS == {S_template}

\* str.lower
LowerStr(s) == [k \in 1..Len(s) |-> LowerChar(s[k])]

\* the orders a set can be listed in
Perms(S) ==
    {f \in [1..Cardinality(S) -> S] : \A j, k \in 1..Cardinality(S) : j # k => f[j] # f[k]}

\* the pip entries of a dependencies list, in order
RECURSIVE PipEntries(_)
PipEntries(deps) ==
    IF deps = <<>> THEN <<>>
    ELSE (IF deps[1].pip THEN deps[1].entries ELSE <<>>) \o PipEntries(Tail(deps))

\* load_envs' loop over the pip entries of one environment: the packages,
\* the warnings, and whether entry.split(maxsplit=1)[1] raised IndexError
RECURSIVE LoadEntries(_, _, _)
LoadEntries(env_dir, entries, acc) ==
    IF entries = <<>> THEN acc
    ELSE IF ~StartsWith(entries[1], S_dash_r)
    THEN LoadEntries(env_dir, Tail(entries), acc)
    ELSE IF Len(SplitOnce(entries[1])) < 2
    THEN [acc EXCEPT !.raised = TRUE]
    ELSE LET got == parse_requirements(Resolve(env_dir, SplitOnce(entries[1])[2]))
         IN  LoadEntries(env_dir, Tail(entries),
                         [pkgs |-> DictUpdate(acc.pkgs, got.pkgs),
                          warn |-> acc.warn \cup got.warn,
                          raised |-> FALSE])

\* data.get("name", env_dir.name)
EnvName(env_dir, data) == IF data.hasName THEN data.name ELSE env_dir

\* env_name.lower() in {"envname", "template"}
IsPlaceholder(env_name) == LowerStr(env_name) \in {S_envname, S_template}

LoadOne(env_dir, data) ==
    LoadEntries(env_dir, PipEntries(data.dependencies),
                [pkgs |-> <<>>, warn |-> {}, raised |-> FALSE])

(***************************************************************************)
(* The program: main, run twice over the same repository                   *)
(***************************************************************************)

\* the most top-level directories a repository has
MaxDirs == 2

VARIABLES
    repo,          \* the repository: directory name -> its environment.yml
    README,        \* README.md: whether it exists, has the markers, and the graph between them
    GRAPH_FILE,    \* diagrams/dependency-graph.mmd, <<>> while not written
    CLUSTER_FILE,  \* diagrams/dependency-clusters.txt, <<>> while not written
    ENV_DIRS,      \* the discovered environment directories, in iterdir() order
    run,           \* 1 for the first run of the script, 2 for the second
    prev_dirs,     \* ENV_DIRS of the first run, <<>> during it
    pc,            \* where main is
    i,             \* load_envs: the index of the next directory
    envs,          \* load_envs: the result so far
    warnings,      \* the warnings printed by this run
    mermaid,       \* main: the graph text
    clusters,      \* main: the cluster partition
    cluster_text,  \* main: the report text
    rc             \* the value main returned; -1 while it runs, 2 when it raised instead

vars == << repo, README, GRAPH_FILE, CLUSTER_FILE, ENV_DIRS, run, prev_dirs, pc, i,
           envs, warnings, mermaid, clusters, cluster_text, rc >>

inputs == << repo, prev_dirs, run, ENV_DIRS >>
files == << README, GRAPH_FILE, CLUSTER_FILE >>
locals == << mermaid, clusters, cluster_text >>

\* ENV_DIRS: the directories not in IGNORE_DIRS that hold an environment.yml
Discovered(r) == DOMAIN r \ IGNORE_DIRS

Init ==
    /\ \E dirs \in SUBSET DirNames :
          /\ Cardinality(dirs) <= MaxDirs
          /\ repo \in [dirs -> YmlMenu]
    /\ ENV_DIRS \in Perms(Discovered(repo))
    /\ README \in { [exists |-> FALSE, markers |-> FALSE, graph |-> <<>>],
                    [exists |-> TRUE, markers |-> FALSE, graph |-> <<>>],
                    [exists |-> TRUE, markers |-> TRUE, graph |-> <<>>] }
    /\ GRAPH_FILE = <<>>
    /\ CLUSTER_FILE = <<>>
    /\ run = 1
    /\ prev_dirs = <<>>
    /\ pc = "load"
    /\ i = 1
    /\ envs = <<>>
    /\ warnings = {}
    /\ mermaid = <<>>
    /\ clusters = <<>>
    /\ cluster_text = <<>>
    /\ rc = -1

Loading == pc = "load" /\ i <= Len(ENV_DIRS)
env_dir == ENV_DIRS[i]
data == repo[env_dir]
env_name == EnvName(env_dir, data)

\* load_envs, one directory: a placeholder environment is skipped
LoadSkip ==
    /\ Loading
    /\ IsPlaceholder(env_name)
    /\ i' = i + 1
    /\ UNCHANGED << inputs, files, locals, pc, envs, warnings, rc >>

\* load_envs, one directory: envs[env_name] = pkgs
LoadStore ==
    /\ Loading
    /\ ~IsPlaceholder(env_name)
    /\ ~LoadOne(env_dir, data).raised
    /\ envs' = DictSet(envs, env_name, LoadOne(env_dir, data).pkgs)
    /\ warnings' = warnings \cup LoadOne(env_dir, data).warn
    /\ i' = i + 1
    /\ UNCHANGED << inputs, files, locals, pc, rc >>

\* load_envs, one directory: entry.split(maxsplit=1)[1] raises IndexError,
\* which nothing catches
LoadRaise ==
    /\ Loading
    /\ ~IsPlaceholder(env_name)
    /\ LoadOne(env_dir, data).raised
    /\ warnings' = warnings \cup LoadOne(env_dir, data).warn
    /\ pc' = "raised"
    /\ rc' = 2
    /\ UNCHANGED << inputs, files, locals, i, envs >>

Loaded == pc = "load" /\ i > Len(ENV_DIRS)

\* main: if not envs: return 1
NoEnvs ==
    /\ Loaded
    /\ envs = <<>>
    /\ pc' = "exit"
    /\ rc' = 1
    /\ UNCHANGED << inputs, files, locals, i, envs, warnings >>

\* main: mermaid = build_mermaid(envs)
BuildMermaid ==
    /\ Loaded
    /\ envs # <<>>
    /\ mermaid' = build_mermaid(envs)
    /\ pc' = "write_graph"
    /\ UNCHANGED << inputs, files, clusters, cluster_text, i, envs, warnings, rc >>

\* main: GRAPH_FILE.write_text(mermaid)
WriteGraph ==
    /\ pc = "write_graph"
    /\ GRAPH_FILE' = mermaid
    /\ pc' = "inject"
    /\ UNCHANGED << inputs, README, CLUSTER_FILE, locals, i, envs, warnings, rc >>

\* InjectNoReadme with the missing README.md treated as a failure of the run
InjectNoReadme_fatal ==
    /\ pc = "inject"
    /\ ~README.exists
    /\ warnings' = warnings \cup {"README.md not found"}
    /\ pc' = "exit"
    /\ rc' = 1
    /\ UNCHANGED << inputs, files, locals, i, envs >>

\* inject_graph_into_readme: no README.md
InjectNoReadme ==
    /\ pc = "inject"
    /\ ~README.exists
    /\ warnings' = warnings \cup {"README.md not found"}
    /\ pc' = "clusters"
    /\ UNCHANGED << inputs, files, locals, i, envs, rc >>

\* inject_graph_into_readme: a README.md without both markers
InjectNoMarkers ==
    /\ pc = "inject"
    /\ README.exists
    /\ ~README.markers
    /\ warnings' = warnings \cup {"README markers not found"}
    /\ pc' = "clusters"
    /\ UNCHANGED << inputs, files, locals, i, envs, rc >>

\* inject_graph_into_readme: the text between the markers is replaced
Inject ==
    /\ pc = "inject"
    /\ README.exists
    /\ README.markers
    /\ README' = [README EXCEPT !.graph = mermaid]
    /\ pc' = "clusters"
    /\ UNCHANGED << inputs, GRAPH_FILE, CLUSTER_FILE, locals, i, envs, warnings, rc >>

\* main: clusters = compute_clusters(envs)
ComputeClusters ==
    /\ pc = "clusters"
    /\ clusters' = compute_clusters(envs)
    /\ pc' = "report"
    /\ UNCHANGED << inputs, files, mermaid, cluster_text, i, envs, warnings, rc >>

\* main: cluster_text = build_cluster_report(clusters).  The interpreter drew
\* its hash seed when it started; the order it gives the environment names
\* shows here for the first time.
BuildReport ==
    /\ pc = "report"
    /\ \E hash_order \in Perms(Keys(envs)) :
          cluster_text' = build_cluster_report(clusters, hash_order)
    /\ pc' = "write_clusters"
    /\ UNCHANGED << inputs, files, mermaid, clusters, i, envs, warnings, rc >>

\* main: CLUSTER_FILE.write_text(cluster_text)
WriteClusters ==
    /\ pc = "write_clusters"
    /\ CLUSTER_FILE' = cluster_text
    /\ pc' = "return"
    /\ UNCHANGED << inputs, README, GRAPH_FILE, locals, i, envs, warnings, rc >>

\* main: return 0
Return0 ==
    /\ pc = "return"
    /\ pc' = "exit"
    /\ rc' = 0
    /\ UNCHANGED << inputs, files, locals, i, envs, warnings >>

\* the script is run again on the unchanged repository; the directories may
\* be discovered in another order
Rerun ==
    /\ pc = "exit"
    /\ rc = 0
    /\ run = 1
    /\ run' = 2
    /\ prev_dirs' = ENV_DIRS
    /\ ENV_DIRS' \in Perms(Discovered(repo))
    /\ pc' = "load"
    /\ i' = 1
    /\ envs' = <<>>
    /\ warnings' = {}
    /\ mermaid' = <<>>
    /\ clusters' = <<>>
    /\ cluster_text' = <<>>
    /\ rc' = -1
    /\ UNCHANGED << repo, files >>

Next ==
    \/ LoadSkip
    \/ LoadStore
    \/ LoadRaise
    \/ NoEnvs
    \/ BuildMermaid
    \/ WriteGraph
    \/ InjectNoReadme
    \/ InjectNoMarkers
    \/ Inject
    \/ ComputeClusters
    \/ BuildReport
    \/ WriteClusters
    \/ Return0
    \/ Rerun

Spec == Init /\ [][Next]_vars

(***************************************************************************)
(* Reading the outputs back                                                *)
(***************************************************************************)

\* the groupings of a graph text: label, identifier and node lines of each
RECURSIVE GraphGroups(_, _)
GraphGroups(lines, acc) ==
    IF lines = <<>> THEN acc
    ELSE IF lines[1].kind = "subgraph"
    THEN GraphGroups(Tail(lines),
                     Append(acc, [label |-> lines[1].label, id |-> lines[1].id,
                                  nodes |-> <<>>]))
    ELSE IF lines[1].kind = "node" /\ acc # <<>>
    THEN GraphGroups(Tail(lines),
                     [acc EXCEPT ![Len(acc)].nodes = Append(@, lines[1])])
    ELSE GraphGroups(Tail(lines), acc)

\* the sections of a report text: header and package lines of each
RECURSIVE ReportSections(_, _)
ReportSections(lines, acc) ==
    IF lines = <<>> THEN acc
    ELSE IF lines[1].kind = "section"
    THEN ReportSections(Tail(lines),
                        Append(acc, [header |-> lines[1].text, pkgs |-> <<>>]))
    ELSE IF lines[1].kind = "pkg" /\ acc # <<>>
    THEN ReportSections(Tail(lines),
                        [acc EXCEPT ![Len(acc)].pkgs = Append(@, lines[1].text)])
    ELSE ReportSections(Tail(lines), acc)

OfKind(lines, kind) ==
    LET Is(l) == l.kind = kind
    IN  SelectSeq(lines, Is)

\* the package a node label names: the label up to "==" or the drift marker
PkgOfLabel(label) == SubSeq(label, 1, SpanLen(label, AllChars \ {"=", " "}))

\* whether a node label carries the drift marker
HasMarker(label) ==
    /\ Len(label) >= Len(DriftMarker)
    /\ SubSeq(label, Len(label) - Len(DriftMarker) + 1, Len(label)) = DriftMarker

\* the relation the loader produced, read as sets
EnvNames == Keys(envs)
PkgsOf(e) == Keys(Get(envs, e))
Declared == UNION {PkgsOf(e) : e \in EnvNames}
DeclaringEnvs(p) == {e \in EnvNames : p \in PkgsOf(e)}
DeclaredVersions(p) == {OrStar(Get(Get(envs, e), p)) : e \in DeclaringEnvs(p)}

\* main has just built the graph, the clusters, the report; none of them
\* changes before the run ends
MermaidBuilt == pc = "write_graph"
ClustersComputed == pc = "report"
ReportBuilt == pc = "write_clusters"

(***************************************************************************)
(* Properties                                                              *)
(***************************************************************************)

ClusterOf(p) == {j \in 1..Len(clusters) : p \in clusters[j].val}

\* C1: compute_clusters returns a partition of the declared packages: every
\* declared package is in exactly one cluster, the clusters together hold
\* exactly the declared packages, no cluster is empty, and the key of the
\* cluster holding a package is the set of environments that declare it.
C1_TruePartition ==
    ClustersComputed =>
        /\ \A p \in Declared : Cardinality(ClusterOf(p)) = 1
        /\ UNION {clusters[j].val : j \in 1..Len(clusters)} = Declared
        /\ \A j \in 1..Len(clusters) : clusters[j].val # {}
        /\ \A j, k \in 1..Len(clusters) :
              j # k => clusters[j].val \cap clusters[k].val = {}
        /\ \A p \in Declared :
              \A j \in ClusterOf(p) : clusters[j].key = DeclaringEnvs(p)

\* a partition with three clusters, one of them shared by two environments
\* and one holding more than one package
C1_Witness ==
    /\ ClustersComputed
    /\ Len(clusters) >= 3
    /\ \E j \in 1..Len(clusters) : Cardinality(clusters[j].key) = 2
    /\ \E j \in 1..Len(clusters) : Cardinality(clusters[j].val) >= 2

NodeLines == OfKind(mermaid, "node")
StyleLines == OfKind(mermaid, "style")
Marked(lines) ==
    LET M(l) == HasMarker(l.label)
    IN  SelectSeq(lines, M)

\* C2: a package's node carries the drift marker, and one style directive
\* is emitted for it, exactly when the package's version set (an omitted
\* version counting as "*") has more than one element; the version set of
\* the index is the set of versions the environments declare.
C2_DriftDetection ==
    MermaidBuilt =>
        LET nodes == NodeLines
            styles == StyleLines
            flagged == Marked(nodes)
            versions == collect_versions(envs)
            NodesOf(p) == {j \in 1..Len(nodes) : PkgOfLabel(nodes[j].label) = p}
        IN  /\ \A p \in Declared :
                  /\ VersionSet(versions, p) = DeclaredVersions(p)
                  /\ Cardinality(NodesOf(p)) = 1
                  /\ \A j \in NodesOf(p) :
                        HasMarker(nodes[j].label) <=> Cardinality(DeclaredVersions(p)) > 1
            /\ Len(styles) = Len(flagged)
            /\ \A j \in 1..Len(styles) : styles[j].id = flagged[j].id

\* a graph where one package is pinned to two versions, one is pinned in one
\* environment and unpinned in the other or declared alike in both, and the
\* flagged and the unflagged both occur
C2_Witness ==
    /\ MermaidBuilt
    /\ \E p \in Declared : Cardinality(DeclaredVersions(p) \ {<<"*">>}) = 2
    /\ \E p \in Declared :
          /\ Cardinality(DeclaringEnvs(p)) = 2
          /\ Cardinality(DeclaredVersions(p)) = 1
    /\ Len(StyleLines) = 1

\* a graph where a package pinned in one environment and unpinned in the
\* other is flagged
C2_WitnessUnpinned ==
    /\ MermaidBuilt
    /\ \E p \in Declared : <<"*">> \in DeclaredVersions(p) /\ Cardinality(DeclaredVersions(p)) = 2
    /\ Len(StyleLines) >= 1

\* the environments of the repository have pairwise different names
UniqueNames ==
    \A d1, d2 \in Discovered(repo) :
        (d1 # d2 /\ ~IsPlaceholder(EnvName(d1, repo[d1])))
            => EnvName(d1, repo[d1]) # EnvName(d2, repo[d2])

\* the second run is about to write what the first run wrote
SameGraph == pc = "write_graph" => mermaid = GRAPH_FILE
SameReport == pc = "write_clusters" => cluster_text = CLUSTER_FILE

\* C3: when the second run discovers the directories in another order than
\* the first, it renders the same graph and the same report.
C3_OrderIndependent ==
    (run = 2 /\ UniqueNames /\ ENV_DIRS # prev_dirs) => (SameGraph /\ SameReport)

\* the graph alone does not depend on the discovery order
GraphOrderIndependent ==
    (run = 2 /\ UniqueNames) => SameGraph

\* C4: a second run on unchanged input, the directories discovered in the
\* same order, writes the same graph and the same report as the first.
C4_Idempotent ==
    (run = 2 /\ ENV_DIRS = prev_dirs) => (SameGraph /\ SameReport)

Groups == GraphGroups(mermaid, <<>>)
Sections == ReportSections(cluster_text, <<>>)

\* C5: after the banner the report has exactly one section per cluster,
\* headed by the cluster's environment names sorted and comma-joined, and
\* followed by the cluster's packages in lexicographic order.
C5_ReportSections ==
    ReportBuilt =>
        LET secs == Sections
        IN  /\ cluster_text[1].kind = "banner"
            /\ Len(secs) = Len(clusters)
            /\ \A c \in 1..Len(clusters) :
                  Cardinality({j \in 1..Len(secs) :
                      /\ secs[j].header = Join(<<",", " ">>, SortedStrs(clusters[c].key))
                      /\ secs[j].pkgs = SortedStrs(clusters[c].val)}) = 1

\* the headers an environment set can get, whatever order its names come in
Headers(env_set) == {Join(<<",", " ">>, q) : q \in Perms(env_set)}

\* the label build_mermaid gives an environment set
GroupLabel(env_set) == Join(<<" ", "+", " ">>, SortedStrs(env_set))

\* C6: the groupings of the graph and the sections of the report correspond
\* one to one in the same order: the j-th of each is about the same
\* environment set and lists the same packages in the same order.
C6_ReportMatchesGraph ==
    ReportBuilt =>
        LET gs == Groups
            secs == Sections
            keys == Keys(clusters)
            label == [k \in keys |-> GroupLabel(k)]
            headers == [k \in keys |-> Headers(k)]
        IN  /\ Len(gs) = Len(secs)
            /\ \A j \in 1..Len(gs) :
                  /\ \E k \in keys :
                        /\ gs[j].label = label[k]
                        /\ secs[j].header \in headers[k]
                  /\ Len(gs[j].nodes) = Len(secs[j].pkgs)
                  /\ \A m \in 1..Len(gs[j].nodes) :
                        PkgOfLabel(gs[j].nodes[m].label) = secs[j].pkgs[m]

\* a graph and a report of three groupings, one with two packages
C6_Witness ==
    /\ ReportBuilt
    /\ Len(Groups) >= 3
    /\ LET secs == Sections
       IN  \E j \in 1..Len(secs) : Len(secs[j].pkgs) >= 2

\* fewer environments first, then the sorted names in lexicographic order;
\* n1 and n2 are the sorted names of two environment sets
NamesPrecede(n1, n2) ==
    \/ Len(n1) < Len(n2)
    \/ /\ Len(n1) = Len(n2)
       /\ ListLess(n1, n2)

Precedes(k1, k2) == NamesPrecede(SortedStrs(k1), SortedStrs(k2))

\* text.split(sep), for reading the names back out of a label or header
RECURSIVE SplitOn(_, _, _)
SplitOn(text, sep, word) ==
    IF text = <<>> THEN <<word>>
    ELSE IF StartsWith(text, sep)
    THEN <<word>> \o SplitOn(SubSeq(text, Len(sep) + 1, Len(text)), sep, <<>>)
    ELSE SplitOn(Tail(text), sep, Append(word, text[1]))

Range(f) == {f[j] : j \in DOMAIN f}

\* the sorted names of the environment sets the groupings of the graph and
\* the sections of the report are about, in the order emitted
GroupNames ==
    LET gs == Groups
    IN  [j \in 1..Len(gs) |->
            SortedStrs(Range(SplitOn(gs[j].label, <<" ", "+", " ">>, <<>>)))] \o <<>>
SectionNames ==
    LET secs == Sections
    IN  [j \in 1..Len(secs) |->
            SortedStrs(Range(SplitOn(secs[j].header, <<",", " ">>, <<>>)))] \o <<>>

\* C7: both renderers emit the clusters in ascending order of (number of
\* environments, sorted environment names), and that order is strict and
\* total on the clusters.
C7_StrictOrder ==
    ReportBuilt =>
        LET keys == Keys(clusters)
            names == {SortedStrs(k) : k \in keys}
            gn == GroupNames
            sn == SectionNames
        IN  /\ \A n1, n2 \in names :
                  n1 # n2 => (NamesPrecede(n1, n2) # NamesPrecede(n2, n1))
            /\ Range(gn) = names
            /\ Range(sn) = names
            /\ Len(gn) = Cardinality(keys)
            /\ Len(sn) = Cardinality(keys)
            /\ \A j, k \in 1..Len(gn) : j < k => NamesPrecede(gn[j], gn[k])
            /\ \A j, k \in 1..Len(sn) : j < k => NamesPrecede(sn[j], sn[k])

\* two clusters of one environment each, found in the order opposite to the
\* emitted one, and a cluster of two environments
C7_Witness ==
    /\ ReportBuilt
    /\ Len(clusters) >= 3
    /\ \E j, k \in 1..Len(clusters) :
          /\ j < k
          /\ Cardinality(clusters[j].key) = Cardinality(clusters[k].key)
          /\ Precedes(clusters[k].key, clusters[j].key)

\* C8: main returns 1 exactly when load_envs found no environment and 0 in
\* every other completed run; a run that printed warnings returns the same.
C8_ExitCode ==
    /\ pc = "exit" => rc = (IF envs = <<>> THEN 1 ELSE 0)
    /\ pc \notin {"exit", "raised"} => rc = -1
    /\ rc = 1 => (pc = "exit" /\ envs = <<>>)

\* a run that warned about a requirements file and about the README and
\* returned 0
C8_Witness ==
    /\ pc = "exit"
    /\ rc = 0
    /\ "requirements file not found" \in warnings
    /\ \/ "README.md not found" \in warnings
       \/ "README markers not found" \in warnings

\* C9: the loader never raises on the pip entries of a parseable
\* environment definition.
C9_NeverRaises == pc # "raised"

Subgraphs == OfKind(mermaid, "subgraph")

\* C10: two different packages never get the same node identifier, two
\* different clusters never get the same grouping identifier, and every
\* style directive refers to exactly one node, a flagged one.
C10_UniqueIds ==
    MermaidBuilt =>
        LET nodes == NodeLines
            subgraphs == Subgraphs
            styles == StyleLines
        IN  /\ \A j, k \in 1..Len(nodes) :
                  PkgOfLabel(nodes[j].label) # PkgOfLabel(nodes[k].label)
                      => nodes[j].id # nodes[k].id
            /\ \A j, k \in 1..Len(subgraphs) :
                  j # k => subgraphs[j].id # subgraphs[k].id
            /\ \A s \in 1..Len(styles) :
                  /\ Cardinality({j \in 1..Len(nodes) : nodes[j].id = styles[s].id}) = 1
                  /\ \A j \in 1..Len(nodes) :
                        nodes[j].id = styles[s].id => HasMarker(nodes[j].label)

====
